---------------------------- MODULE Spec2Model ----------------------------
(***************************************************************************)
(* A model of bsonx: the expression/update/projection builders and their   *)
(* compilers (src/src/compile.ts, update.ts, select.ts), the column        *)
(* factory (src/unnamed/part_000) and the schema path proxy                *)
(* (src/src/expr.ts, defineSchema).                                        *)
(*                                                                         *)
(* JavaScript strings are sequences of one-character strings, so that      *)
(* concatenation ("$" + path, path + "." + key) is computed, not assumed.  *)
(* JavaScript values are tagged records:                                   *)
(*   [num |-> n]  [null |-> TRUE]  [undef |-> TRUE]  [str |-> chars]       *)
(*   [arr |-> <<values>>]          an array                                *)
(*   [props |-> f, proto |-> v]    an ordinary object: own properties f    *)
(*                                 (a function from keys to values) and    *)
(*                                 its prototype                           *)
(*   [path |-> v]                  a Column, the object { path }           *)
(*   [proxy |-> chars]             a schema proxy closed over its path     *)
(*   [throw |-> "TypeError"]       an abrupt completion                    *)
(***************************************************************************)
EXTENDS Integers, Sequences, FiniteSets, TLC

VARIABLES call, ret, accessors

vars == <<call, ret, accessors>>

----------------------------------------------------------------------------
(* Bounds of the model. *)

\* longest sequence of update nodes handed to compileUpdate
MaxUpdates == 3

\* most nodes in an expression tree handed to compileMatch
MaxNodes == 5

\* longest value array of an "in" expression
MaxVals == 3

\* most entries of a shape handed to select
MaxShape == 2

\* most schema accessors alive at once
MaxAccessors == 4

----------------------------------------------------------------------------
(* JavaScript values. *)

Num(n) == [num |-> n]

Null == [null |-> TRUE]

Undefined == [undef |-> TRUE]

StrV(s) == [str |-> s]

Arr(s) == [arr |-> s]

TypeError == [throw |-> "TypeError"]

\* %Object.prototype%, the prototype of every object literal
ObjectPrototype == [builtin |-> "Object.prototype"]

NoProps == [k \in {} |-> Null]

\* the object literal {} extended with own data properties f
Obj(f) == [props |-> f, proto |-> ObjectPrototype]

IsThrow(v) == "throw" \in DOMAIN v

IsObj(v) == "props" \in DOMAIN v

IsStr(v) == "str" \in DOMAIN v

IsProxy(v) == "proxy" \in DOMAIN v

\* string literals of the source, as character sequences
S_set == <<"$", "s", "e", "t">>

S_inc == <<"$", "i", "n", "c">>

S_proto == <<"_", "_", "p", "r", "o", "t", "o", "_", "_">>

S_undefined == <<"u", "n", "d", "e", "f", "i", "n", "e", "d">>

S_path == <<"p", "a", "t", "h">>

S_gt == <<"$", "g", "t">>

S_gte == <<"$", "g", "t", "e">>

S_lt == <<"$", "l", "t">>

S_lte == <<"$", "l", "t", "e">>

S_in == <<"$", "i", "n">>

S_and == <<"$", "a", "n", "d">>

S_or == <<"$", "o", "r">>

----------------------------------------------------------------------------
(* Property access on ordinary objects, as update.ts and select.ts use it  *)
(* on objects they create with {}.                                         *)

HasOwn(o, k) == k \in DOMAIN o.props

\* whether o inherits the accessor "__proto__" of Object.prototype: its
\* prototype chain ends there and no object on the way has an own property
\* of that name
RECURSIVE InheritsProtoAccessor(_)
InheritsProtoAccessor(o) ==
  IF o.proto = ObjectPrototype THEN TRUE
  ELSE IF o.proto = Null THEN FALSE
  ELSE ~HasOwn(o.proto, S_proto) /\ InheritsProtoAccessor(o.proto)

\* o[k] = v on an ordinary object (ECMAScript OrdinarySet): an own property
\* is overwritten; otherwise the key "__proto__", inherited from
\* Object.prototype as an accessor, runs its setter, which replaces the
\* prototype when v is an object or null and does nothing for any other v;
\* every other key becomes a new own data property.
ObjSet(o, k, v) ==
  IF HasOwn(o, k) THEN [o EXCEPT !.props = (k :> v) @@ o.props]
  ELSE IF k = S_proto /\ InheritsProtoAccessor(o)
       THEN IF v = Null \/ IsObj(v) THEN [o EXCEPT !.proto = v] ELSE o
  ELSE [o EXCEPT !.props = (k :> v) @@ o.props]

\* the lookup of k from holder up the prototype chain, for receiver: an own
\* property, else the "__proto__" getter of Object.prototype (it returns
\* the prototype of the receiver), else undefined
RECURSIVE Lookup(_, _, _)
Lookup(holder, k, receiver) ==
  IF HasOwn(holder, k) THEN holder.props[k]
  ELSE IF holder.proto = ObjectPrototype
       THEN IF k = S_proto THEN receiver.proto ELSE Undefined
  ELSE IF holder.proto = Null THEN Undefined
  ELSE Lookup(holder.proto, k, receiver)

\* o[k] read back (ECMAScript OrdinaryGet)
ObjGet(o, k) == Lookup(o, k, o)

----------------------------------------------------------------------------
(* Columns and the schema proxy. *)

\* column(path): the object { path }
column(path) == [path |-> path]

\* ProxyGet without the test of the empty path
ProxyGetAlwaysDot(path, key) == [proxy |-> path \o <<".">> \o key]

\* the get trap of the proxy made by make(path): the key is a string, or a
\* symbol when the engine looks up Symbol.toPrimitive.  A template literal
\* over a symbol throws; with an empty path the key itself becomes the path.
ProxyGet(path, key) ==
  IF path # <<>>
  THEN IF key = [symbol |-> "toPrimitive"] THEN TypeError
       ELSE [proxy |-> path \o <<".">> \o key]
  ELSE [proxy |-> key]

\* col.path, for a Column or for a schema proxy standing in for one
GetPath(col) == IF IsProxy(col) THEN ProxyGet(col.proxy, S_path) ELSE col.path

\* ToPrimitive over the values of the model: a proxy is asked for its
\* Symbol.toPrimitive method; the trap throws, or returns a proxy, which is
\* not callable, and GetMethod throws.
ToPrimitive(v) ==
  IF IsProxy(v)
  THEN LET m == ProxyGet(v.proxy, [symbol |-> "toPrimitive"])
       IN  IF IsThrow(m) THEN m ELSE TypeError
  ELSE v

\* ToString of a primitive that the compilers meet as a key or in a template
ToStr(v) ==
  LET p == ToPrimitive(v)
  IN  IF IsThrow(p) THEN p
      ELSE IF IsStr(p) THEN p
      ELSE IF p = Undefined THEN StrV(S_undefined)
      ELSE StrV(<<"?">>)

----------------------------------------------------------------------------
(* update.ts *)

set(col, val) == [kind |-> "set", col |-> col, val |-> val]

inc(col, val) == [kind |-> "inc", col |-> col, val |-> val]

\* u.$set ??= {} ; u.$set[upd.col.path] = upd.val   (and the same for $inc);
\* the computed key is converted by ToPropertyKey, which may throw
Assign(u, op, upd) ==
  LET u1 == IF HasOwn(u, op) THEN u ELSE ObjSet(u, op, Obj(NoProps))
      k  == ToStr(GetPath(upd.col))
  IN  IF IsThrow(k) THEN k
      ELSE ObjSet(u1, op, ObjSet(ObjGet(u1, op), k.str, upd.val))

\* UpdateStep rejecting the kinds it has no branch for
UpdateStepStrict(u, upd) ==
  IF upd.kind \notin {"set", "inc"} THEN TypeError
  ELSE LET u1 == IF upd.kind = "set" THEN Assign(u, S_set, upd) ELSE u
       IN  IF IsThrow(u1) THEN u1
           ELSE IF upd.kind = "inc" THEN Assign(u1, S_inc, upd) ELSE u1

\* one iteration of the loop of compileUpdate: the two ifs, in order
UpdateStep(u, upd) ==
  LET u1 == IF upd.kind = "set" THEN Assign(u, S_set, upd) ELSE u
  IN  IF IsThrow(u1) THEN u1
      ELSE IF upd.kind = "inc" THEN Assign(u1, S_inc, upd) ELSE u1

RECURSIVE UpdateLoop(_, _)
UpdateLoop(u, updates) ==
  IF IsThrow(u) \/ updates = <<>> THEN u
  ELSE UpdateLoop(UpdateStep(u, Head(updates)), Tail(updates))

compileUpdate(updates) == UpdateLoop(Obj(NoProps), updates)

----------------------------------------------------------------------------
(* expr.ts: the expression constructors *)

eq(col, val) == [kind |-> "eq", col |-> col, val |-> val]

gt(col, val) == [kind |-> "gt", col |-> col, val |-> val]

gte(col, val) == [kind |-> "gte", col |-> col, val |-> val]

lt(col, val) == [kind |-> "lt", col |-> col, val |-> val]

lte(col, val) == [kind |-> "lte", col |-> col, val |-> val]

inArray(col, val) == [kind |-> "in", col |-> col, val |-> val]

and(exprs) == [kind |-> "and", exprs |-> exprs]

or(exprs) == [kind |-> "or", exprs |-> exprs]

----------------------------------------------------------------------------
(* compile.ts *)

\* KeyDoc built by assignment to an empty object instead of a literal
KeyDocAssigned(expr, v) ==
  LET k == ToStr(GetPath(expr.col))
  IN  IF IsThrow(k) THEN k ELSE ObjSet(Obj(NoProps), k.str, v)

\* the object literal { [expr.col.path]: v }: the computed key is converted
\* by ToPropertyKey, which may throw, and defines an own data property
\* whatever the key is
KeyDoc(expr, v) ==
  LET k == ToStr(GetPath(expr.col))
  IN  IF IsThrow(k) THEN k ELSE Obj(k.str :> v)

\* { [op]: v }
OpDoc(op, v) == Obj(op :> v)

RECURSIVE Dedup(_)
Dedup(sq) ==
  IF sq = <<>> THEN <<>>
  ELSE LET r == Dedup(SubSeq(sq, 1, Len(sq) - 1))
       IN  IF \E i \in 1..Len(r) : r[i] = sq[Len(sq)] THEN r
           ELSE Append(r, sq[Len(sq)])

\* InDoc dropping repeated values
InDocDedup(vals) == OpDoc(S_in, Arr(Dedup(vals.arr)))

\* { $in: expr.val }: the array is stored as it is
InDoc(vals) == OpDoc(S_in, vals)

RECURSIVE compileMatch(_)
\* expr.exprs.map(compileMatch): an exception of a child ends the map
MapCompile(exprs) ==
  LET rs == [i \in 1..Len(exprs) |-> compileMatch(exprs[i])]
  IN  IF \E i \in 1..Len(exprs) : IsThrow(rs[i]) THEN TypeError ELSE Arr(rs)

RECURSIVE FlattenKids(_, _)
FlattenKids(kind, exprs) ==
  IF exprs = <<>> THEN <<>>
  ELSE (IF Head(exprs).kind = kind THEN Head(exprs).exprs ELSE <<Head(exprs)>>)
       \o FlattenKids(kind, Tail(exprs))

\* CompoundDoc merging the children of a child of the same kind into it
CompoundDocFlat(op, exprs) ==
  LET a == MapCompile(FlattenKids(IF op = S_and THEN "and" ELSE "or", exprs))
  IN  IF IsThrow(a) THEN a ELSE OpDoc(op, a)

\* { [op]: expr.exprs.map(compileMatch) }
CompoundDoc(op, exprs) ==
  LET a == MapCompile(exprs)
  IN  IF IsThrow(a) THEN a ELSE OpDoc(op, a)

\* the switch of compileMatch; a kind with no case falls out of the switch
\* and the function returns undefined
compileMatch(expr) ==
  CASE expr.kind = "eq"  -> KeyDoc(expr, expr.val)
    [] expr.kind = "gt"  -> KeyDoc(expr, OpDoc(S_gt, expr.val))
    [] expr.kind = "gte" -> KeyDoc(expr, OpDoc(S_gte, expr.val))
    [] expr.kind = "lt"  -> KeyDoc(expr, OpDoc(S_lt, expr.val))
    [] expr.kind = "lte" -> KeyDoc(expr, OpDoc(S_lte, expr.val))
    [] expr.kind = "in"  -> KeyDoc(expr, InDoc(expr.val))
    [] expr.kind = "and" -> CompoundDoc(S_and, expr.exprs)
    [] expr.kind = "or"  -> CompoundDoc(S_or, expr.exprs)
    [] OTHER -> Undefined

----------------------------------------------------------------------------
(* select.ts *)

\* OptPath without the optional chaining: shape[k].path
OptPathNoChain(v) == IF v = Undefined \/ v = Null THEN TypeError ELSE GetPath(v)

\* shape[k]?.path
OptPath(v) == IF v = Undefined \/ v = Null THEN Undefined ELSE GetPath(v)

\* the template literal `$${x}`
Dollar(x) ==
  LET t == ToStr(x)
  IN  IF IsThrow(t) THEN t ELSE StrV(<<"$">> \o t.str)

\* the for-in loop of select over the entries <<key, value>> of shape, in
\* the order the engine enumerates them
RECURSIVE SelectLoop(_, _)
SelectLoop(projection, entries) ==
  IF entries = <<>> THEN projection
  ELSE LET k == Head(entries)[1]
           t == Dollar(OptPath(Head(entries)[2]))
       IN  IF IsThrow(t) THEN t
           ELSE SelectLoop(ObjSet(projection, k, t), Tail(entries))

select(shape) == SelectLoop(Obj(NoProps), shape)

----------------------------------------------------------------------------
(* expr.ts: defineSchema *)

\* make(): the root proxy, closed over the default path ""
defineSchema == [proxy |-> <<>>]

----------------------------------------------------------------------------
(* Inputs. *)

NotCalled == [pending |-> TRUE]

\* the sequences over S of length n at most
RECURSIVE SeqsUpTo(_, _)
SeqsUpTo(S, n) ==
  IF n = 0 THEN {<<>>}
  ELSE SeqsUpTo(S, n - 1) \cup [1..n -> S]

P_a == <<"a">>

P_b == <<"b">>

P_ab == <<"a", ".", "b">>

P_c == <<"c">>

UpdatePaths == {P_a, P_b, S_proto}

\* the update nodes, one of them of a kind the compiler has no branch for
UpdateNodes ==
  {set(column(StrV(p)), v) : p \in UpdatePaths, v \in {Num(1), Num(2), Null}}
  \cup {inc(column(StrV(p)), v) : p \in UpdatePaths, v \in {Num(1), Num(2)}}
  \cup {[kind |-> "unset", col |-> column(StrV(P_a)), val |-> Num(1)]}

MatchPaths == {P_a, P_ab, S_proto}

\* an expression node of a kind the compiler has no case for
UnknownExpr == [kind |-> "ne", col |-> column(StrV(P_a)), val |-> Num(1)]

LeafExprs ==
  {eq(column(StrV(p)), v) :
     p \in MatchPaths, v \in {Num(1), Null, StrV(<<"x">>)}}
  \cup {gt(column(StrV(p)), v) : p \in MatchPaths, v \in {Num(1), Num(2)}}
  \cup {gte(column(StrV(p)), v) : p \in MatchPaths, v \in {Num(1), Num(2)}}
  \cup {lt(column(StrV(p)), v) : p \in MatchPaths, v \in {Num(1), Num(2)}}
  \cup {lte(column(StrV(p)), v) : p \in MatchPaths, v \in {Num(1), Num(2)}}
  \cup {inArray(column(StrV(p)), Arr(vs)) :
          p \in MatchPaths, vs \in SeqsUpTo({Num(1), Num(2)}, MaxVals)}
  \cup {UnknownExpr}

\* the leaves that compound expressions are grown from
TreeLeaves ==
  {gte(column(StrV(P_a)), Num(1)), eq(column(StrV(P_ab)), Null), UnknownExpr}

Compound(kind, exprs) == IF kind = "and" THEN and(exprs) ELSE or(exprs)

\* Trees(n): the expressions of exactly n nodes over TreeLeaves;
\* Forests(m): the sequences of expressions of m nodes in all
RECURSIVE Trees(_), Forests(_)
Forests(m) ==
  IF m = 0 THEN {<<>>}
  ELSE UNION {{<<t>> \o f : t \in Trees(k), f \in Forests(m - k)} : k \in 1..m}

Trees(n) ==
  (IF n = 1 THEN TreeLeaves ELSE {})
  \cup {Compound(kind, f) : kind \in {"and", "or"}, f \in Forests(n - 1)}

K_x == <<"x">>

K_y == <<"y">>

ShapeKeys == {K_x, K_y, S_proto}

\* what a shape may hold under a key: a Column, nothing, null, or a Column
\* whose path is undefined
ShapeVals ==
  {column(StrV(P_ab)), column(StrV(P_c)), Undefined, Null, column(Undefined)}

\* a shape is the sequence of its entries <<key, value>>, no key twice
IsShape(sh) == \A i, j \in 1..Len(sh) : sh[i][1] = sh[j][1] => i = j

K_address == <<"a", "d", "d", "r", "e", "s", "s">>

K_city == <<"c", "i", "t", "y">>

\* the property names read off a schema accessor, the empty name among them
AccessKeys == {K_address, K_city, S_path, <<>>}

----------------------------------------------------------------------------
(* The caller: an input is chosen, the function is applied to it once. *)

\* every sequence of at most MaxUpdates update nodes
InitUpdate ==
  \E n \in 0..MaxUpdates : \E us \in [1..n -> UpdateNodes] :
    call = [fn |-> "compileUpdate", arg |-> us]

\* every leaf expression, and every and/or tree of at most MaxNodes nodes:
\* a compound of n nodes has no child, or a first child of k nodes followed
\* by children of n - 1 - k nodes in all
InitMatch ==
  \/ \E e \in LeafExprs : call = [fn |-> "compileMatch", arg |-> e]
  \/ \E kind \in {"and", "or"} :
       call = [fn |-> "compileMatch", arg |-> Compound(kind, <<>>)]
  \/ \E n \in 2..MaxNodes, kind \in {"and", "or"} : \E k \in 1..(n - 1) :
       \E t \in Trees(k), f \in Forests(n - 1 - k) :
         call = [fn |-> "compileMatch", arg |-> Compound(kind, <<t>> \o f)]

\* every shape of at most MaxShape entries
InitSelect ==
  \E n \in 0..MaxShape : \E sh \in [1..n -> ShapeKeys \X ShapeVals] :
    /\ IsShape(sh)
    /\ call = [fn |-> "select", arg |-> sh]

Init ==
  /\ InitUpdate \/ InitMatch \/ InitSelect
  /\ ret = NotCalled
  /\ accessors = <<>>

CompileUpdate ==
  /\ call.fn = "compileUpdate"
  /\ ret = NotCalled
  /\ ret' = compileUpdate(call.arg)
  /\ UNCHANGED <<call, accessors>>

CompileMatch ==
  /\ call.fn = "compileMatch"
  /\ ret = NotCalled
  /\ ret' = compileMatch(call.arg)
  /\ UNCHANGED <<call, accessors>>

Select ==
  /\ call.fn = "select"
  /\ ret = NotCalled
  /\ ret' = select(call.arg)
  /\ UNCHANGED <<call, accessors>>

Next == CompileUpdate \/ CompileMatch \/ Select

Spec == Init /\ [][Next]_vars

----------------------------------------------------------------------------
(* The caller of defineSchema: accessors holds every accessor made so far, *)
(* each with the chain of keys it was reached by; call and ret hold the    *)
(* last operation and its result.                                          *)

\* an accessor as the value the program sees
Val(a) == [proxy |-> a.proxy]

InitSchema ==
  /\ call = [fn |-> "none"]
  /\ ret = NotCalled
  /\ accessors = <<>>

DefineSchema ==
  /\ Len(accessors) < MaxAccessors
  /\ accessors' = Append(accessors, [proxy |-> defineSchema.proxy, chain |-> <<>>])
  /\ call' = [fn |-> "defineSchema"]
  /\ ret' = defineSchema

\* accessors[i][k], the read of property k; reading .path is one of them
Get(i, k) ==
  /\ Len(accessors) < MaxAccessors
  /\ LET r == ProxyGet(accessors[i].proxy, k)
     IN  /\ accessors' =
              Append(accessors,
                     [proxy |-> r.proxy, chain |-> Append(accessors[i].chain, k)])
         /\ ret' = r
  /\ call' = [fn |-> "get", arg |-> accessors[i], key |-> k]

\* compileMatch(eq(accessors[i], v)): the accessor used as a Column
CompileMatchOn(i, v) ==
  /\ call' = [fn |-> "compileMatch", arg |-> eq(Val(accessors[i]), v),
              chain |-> accessors[i].chain]
  /\ ret' = compileMatch(eq(Val(accessors[i]), v))
  /\ UNCHANGED accessors

\* select({ x: accessors[i] })
SelectOn(i) ==
  /\ call' = [fn |-> "select", arg |-> <<<<K_x, Val(accessors[i])>>>>,
              chain |-> accessors[i].chain]
  /\ ret' = select(<<<<K_x, Val(accessors[i])>>>>)
  /\ UNCHANGED accessors

NextSchema ==
  \/ DefineSchema
  \/ \E i \in 1..Len(accessors), k \in AccessKeys : Get(i, k)
  \/ \E i \in 1..Len(accessors), v \in {Num(1), Null} : CompileMatchOn(i, v)
  \/ \E i \in 1..Len(accessors) : SelectOn(i)

SpecSchema == InitSchema /\ [][NextSchema]_vars

----------------------------------------------------------------------------
(* Vocabulary of the properties. *)

\* the function named f has been applied and ret holds what it returned
Called(f) == call.fn = f /\ ret # NotCalled

Keys(o) == DOMAIN o.props

Last(S) == CHOOSE i \in S : \A j \in S : j <= i

\* the positions of the nodes of kind k in us that target path p
Targets(us, k, p) ==
  {i \in 1..Len(us) : us[i].kind = k /\ us[i].col.path = StrV(p)}

\* the paths targeted by the nodes of kind k in us
PathsOf(us, k) == {us[i].col.path.str : i \in {j \in 1..Len(us) : us[j].kind = k}}

HasKind(us, k) == \E i \in 1..Len(us) : us[i].kind = k

\* $set[p] (op = "$set") or $inc[p] read off the document doc
Group(doc, op, p) == ObjGet(ObjGet(doc, op), p)

LastWins(doc, us, k, op, p) ==
  Targets(us, k, p) # {} => Group(doc, op, p) = us[Last(Targets(us, k, p))].val

GroupExact(doc, us, k, op) ==
  /\ HasOwn(doc, op) <=> HasKind(us, k)
  /\ HasOwn(doc, op) => Keys(ObjGet(doc, op)) = PathsOf(us, k)

----------------------------------------------------------------------------
(* compileUpdate *)

\* C1: after compileUpdate, for every path p targeted by a set node,
\* $set[p] is the val of the last set node targeting p, and likewise $inc[p]
\* for the inc nodes; the two groups do not disturb each other.
C1_LastWriteWins ==
  Called("compileUpdate") =>
    \A p \in UpdatePaths :
      /\ LastWins(ret, call.arg, "set", S_set, p)
      /\ LastWins(ret, call.arg, "inc", S_inc, p)

\* C1 on every path but "__proto__": there the statement holds
C1_LastWriteWinsElsewhere ==
  Called("compileUpdate") =>
    \A p \in UpdatePaths \ {S_proto} :
      /\ LastWins(ret, call.arg, "set", S_set, p)
      /\ LastWins(ret, call.arg, "inc", S_inc, p)

\* C2: the document has the key $set exactly when a set node was given and
\* $inc exactly when an inc node was given, and no other key; the paths of
\* a present group are exactly the paths its nodes target; compileUpdate([])
\* is the empty document.
C2_GroupsExact ==
  Called("compileUpdate") =>
    /\ Keys(ret) \subseteq {S_set, S_inc}
    /\ GroupExact(ret, call.arg, "set", S_set)
    /\ GroupExact(ret, call.arg, "inc", S_inc)
    /\ call.arg = <<>> => ret = Obj(NoProps)

\* C2 with the paths of a group compared apart from "__proto__"
C2_GroupsExactElsewhere ==
  Called("compileUpdate") =>
    /\ Keys(ret) \subseteq {S_set, S_inc}
    /\ HasOwn(ret, S_set) <=> HasKind(call.arg, "set")
    /\ HasOwn(ret, S_inc) <=> HasKind(call.arg, "inc")
    /\ HasOwn(ret, S_set) =>
         Keys(ObjGet(ret, S_set)) \ {S_proto} = PathsOf(call.arg, "set") \ {S_proto}
    /\ HasOwn(ret, S_inc) =>
         Keys(ObjGet(ret, S_inc)) \ {S_proto} = PathsOf(call.arg, "inc") \ {S_proto}
    /\ call.arg = <<>> => ret = Obj(NoProps)

----------------------------------------------------------------------------
(* compileMatch *)

CompoundOp(k) == IF k = "and" THEN S_and ELSE S_or

\* the operator name "$" + k of a comparison kind k
DollarKind(k) ==
  <<"$">> \o (CASE k = "gt" -> <<"g", "t">>
                [] k = "gte" -> <<"g", "t", "e">>
                [] k = "lt" -> <<"l", "t">>
                [] k = "lte" -> <<"l", "t", "e">>)

E1 == gte(column(StrV(P_a)), Num(1))

E2 == eq(column(StrV(P_ab)), Null)

\* C3: an and/or node compiles to a document whose only key is $and/$or,
\* holding the compiled children one for one in their order; nothing is
\* flattened: and(and(e1,e2),e3) gives two elements, the first a $and of two.
C3_CompoundStructural ==
  (Called("compileMatch") /\ call.arg.kind \in {"and", "or"}) =>
    LET op == CompoundOp(call.arg.kind)
        kids == call.arg.exprs
    IN  /\ Keys(ret) = {op}
        /\ Len(ret.props[op].arr) = Len(kids)
        /\ \A i \in 1..Len(kids) : ret.props[op].arr[i] = compileMatch(kids[i])
        /\ \A i \in 1..Len(kids) :
             kids[i].kind \in {"and", "or"} =>
               Len(ret.props[op].arr[i].props[CompoundOp(kids[i].kind)].arr)
                 = Len(kids[i].exprs)
        /\ \A i \in 1..Len(kids) :
             kids[i] = E1 => ret.props[op].arr[i] = Obj(P_a :> Obj(S_gte :> Num(1)))

C3_Witness ==
  /\ Called("compileMatch")
  /\ call.arg = and(<<and(<<E1, E2>>), E1>>)
  /\ Len(ret.props[S_and].arr) = 2
  /\ Len(ret.props[S_and].arr[1].props[S_and].arr) = 2

\* C4: a comparison on path p with value v compiles to a document with the
\* one key p, holding v itself for eq (null included) and the one-key
\* document {"$"+k: v} for k in gt, gte, lt, lte.
C4_Comparison ==
  Called("compileMatch") =>
    /\ call.arg.kind = "eq" =>
         /\ Keys(ret) = {call.arg.col.path.str}
         /\ ret.props[call.arg.col.path.str] = call.arg.val
    /\ call.arg.kind \in {"gt", "gte", "lt", "lte"} =>
         /\ Keys(ret) = {call.arg.col.path.str}
         /\ ret.props[call.arg.col.path.str] =
              Obj(DollarKind(call.arg.kind) :> call.arg.val)

C4_Witness ==
  /\ Called("compileMatch")
  /\ call.arg = eq(column(StrV(P_ab)), Null)
  /\ ret = Obj(P_ab :> Null)

\* C5: inArray(col(p), vals) compiles to {p: {$in: vals}} with the elements
\* of vals in their order and multiplicity, the empty array included.
C5_InArray ==
  (Called("compileMatch") /\ call.arg.kind = "in") =>
    /\ Keys(ret) = {call.arg.col.path.str}
    /\ Keys(ret.props[call.arg.col.path.str]) = {S_in}
    /\ ret.props[call.arg.col.path.str].props[S_in].arr = call.arg.val.arr

C5_Witness ==
  /\ Called("compileMatch")
  /\ call.arg = inArray(column(StrV(P_a)), Arr(<<Num(2), Num(1), Num(2)>>))
  /\ ret = Obj(P_a :> Obj(S_in :> Arr(<<Num(2), Num(1), Num(2)>>)))

----------------------------------------------------------------------------
(* Unknown kinds *)

ExprKinds == {"eq", "gt", "gte", "lt", "lte", "in", "and", "or"}

UpdateKinds == {"set", "inc"}

KnownUpdate(upd) == upd.kind \in UpdateKinds

HasUnknownUpdate(us) == \E i \in 1..Len(us) : ~KnownUpdate(us[i])

\* C8 as stated: a node of unknown kind makes compileMatch and compileUpdate
\* fail with an error.
C8_UnknownKindFails ==
  /\ (Called("compileMatch") /\ call.arg.kind \notin ExprKinds) => IsThrow(ret)
  /\ (Called("compileUpdate") /\ HasUnknownUpdate(call.arg)) => IsThrow(ret)

\* C8 amended: no error is raised; compileMatch returns undefined for a node
\* of unknown kind, also as the element a compound holds for such a child,
\* and compileUpdate returns what it returns without the unknown nodes.
C8_UnknownKindIgnored ==
  /\ (Called("compileMatch") /\ call.arg.kind \notin ExprKinds) =>
       ret = Undefined
  /\ (Called("compileMatch") /\ call.arg.kind \in {"and", "or"}) =>
       /\ ~IsThrow(ret)
       /\ \A i \in 1..Len(call.arg.exprs) :
            call.arg.exprs[i].kind \notin ExprKinds =>
              ret.props[CompoundOp(call.arg.kind)].arr[i] = Undefined
  /\ (Called("compileUpdate") /\ HasUnknownUpdate(call.arg)) =>
       /\ ~IsThrow(ret)
       /\ Keys(ret) \subseteq {S_set, S_inc}
       /\ ret = compileUpdate(SelectSeq(call.arg, KnownUpdate))

C8_Witness ==
  /\ Called("compileUpdate")
  /\ Len(call.arg) = 3
  /\ call.arg[1] = set(column(StrV(P_a)), Num(1))
  /\ ~KnownUpdate(call.arg[2])
  /\ call.arg[3] = inc(column(StrV(P_b)), Num(2))
  /\ ret = Obj((S_set :> Obj(P_a :> Num(1))) @@ (S_inc :> Obj(P_b :> Num(2))))

----------------------------------------------------------------------------
(* select *)

IsColumn(v) == "path" \in DOMAIN v /\ IsStr(v.path)

ShapeKeysOf(sh) == {sh[i][1] : i \in 1..Len(sh)}

RECURSIVE Reverse(_)
Reverse(sq) == IF sq = <<>> THEN <<>> ELSE Append(Reverse(Tail(sq)), Head(sq))

\* C6: for a shape of Columns, select returns a mapping with exactly the
\* keys of the shape, each key k holding "$" followed by the path of
\* shape[k], whatever the order of enumeration.
C6_SelectShape ==
  (Called("select") /\ \A i \in 1..Len(call.arg) : IsColumn(call.arg[i][2])) =>
    /\ Keys(ret) = ShapeKeysOf(call.arg)
    /\ \A i \in 1..Len(call.arg) :
         ObjGet(ret, call.arg[i][1]) = StrV(<<"$">> \o call.arg[i][2].path.str)
    /\ select(Reverse(call.arg)) = ret

\* C6 on every key but "__proto__": there the statement holds
C6_SelectShapeElsewhere ==
  (Called("select") /\ \A i \in 1..Len(call.arg) : IsColumn(call.arg[i][2])) =>
    /\ Keys(ret) = ShapeKeysOf(call.arg) \ {S_proto}
    /\ \A i \in 1..Len(call.arg) :
         call.arg[i][1] # S_proto =>
           ObjGet(ret, call.arg[i][1]) = StrV(<<"$">> \o call.arg[i][2].path.str)
    /\ select(Reverse(call.arg)) = ret

HasMissing(sh) == \E i \in 1..Len(sh) : ~IsColumn(sh[i][2])

\* C9 as stated: a shape with a missing Column, or one whose path is
\* undefined, makes select fail with an error.
C9_MissingColumnFails ==
  (Called("select") /\ HasMissing(call.arg)) => IsThrow(ret)

\* C9 amended: select raises no error on such a shape; it returns a
\* projection in which the key of such an entry holds "$undefined" (the key
\* "__proto__" is not stored at all).
C9_MissingColumnPlaceholder ==
  (Called("select") /\ HasMissing(call.arg)) =>
    /\ ~IsThrow(ret)
    /\ \A i \in 1..Len(call.arg) :
         ~IsColumn(call.arg[i][2]) =>
           IF call.arg[i][1] = S_proto
           THEN ~HasOwn(ret, S_proto)
           ELSE /\ HasOwn(ret, call.arg[i][1])
                /\ ret.props[call.arg[i][1]] = StrV(<<"$">> \o S_undefined)

C9_Witness ==
  /\ Called("select")
  /\ call.arg = <<<<K_x, column(StrV(P_c))>>, <<K_y, Undefined>>>>
  /\ ret = Obj((K_x :> StrV(<<"$">> \o P_c)) @@ (K_y :> StrV(<<"$">> \o S_undefined)))

----------------------------------------------------------------------------
(* defineSchema *)

\* k1.k2. ... .kn
RECURSIVE Join(_)
Join(chain) ==
  IF chain = <<>> THEN <<>>
  ELSE IF Len(chain) = 1 THEN chain[1]
  ELSE chain[1] \o <<".">> \o Join(Tail(chain))

\* C7: reading .path off the accessor reached by the keys k1, ..., kn gives
\* the string k1.k2. ... .kn ("address.city" for address, city).
C7_PathIsString ==
  (call.fn = "get" /\ call.key = S_path) => ret = StrV(Join(call.arg.chain))

\* C10: a property access with key k on an accessor of path P makes one new
\* accessor, whose path is k when P is empty and P, ".", k otherwise; every
\* accessor that existed keeps its path; the path of an accessor is decided
\* by its chain of keys alone (it is their join when no key is empty).
C10_Step ==
  /\ \A i \in 1..Len(accessors) :
       i <= Len(accessors') /\ accessors'[i] = accessors[i]
  /\ (call'.fn = "get" /\ accessors' # accessors) =>
       /\ Len(accessors') = Len(accessors) + 1
       /\ call'.arg \in {accessors[i] : i \in 1..Len(accessors)}
       /\ accessors'[Len(accessors')].chain = Append(call'.arg.chain, call'.key)
       /\ accessors'[Len(accessors')].proxy =
            IF call'.arg.proxy = <<>> THEN call'.key
            ELSE call'.arg.proxy \o <<".">> \o call'.key
       /\ ret' = [proxy |-> accessors'[Len(accessors')].proxy]

C10_Paths ==
  /\ \A i \in 1..Len(accessors) :
       (\A n \in 1..Len(accessors[i].chain) : accessors[i].chain[n] # <<>>) =>
         accessors[i].proxy = Join(accessors[i].chain)
  /\ \A i, j \in 1..Len(accessors) :
       accessors[i].chain = accessors[j].chain =>
         accessors[i].proxy = accessors[j].proxy

C10_AccessFrame == [](C10_Paths) /\ [][C10_Step]_vars

C10_Witness ==
  /\ \E i, j, l \in 1..Len(accessors) :
       /\ accessors[i].chain = <<K_address>>
       /\ accessors[j] = [proxy |-> K_address \o <<".">> \o K_city,
                          chain |-> <<K_address, K_city>>]
       /\ accessors[l] = [proxy |-> K_address \o <<".">> \o S_path,
                          chain |-> <<K_address, S_path>>]
       /\ i < j /\ j < l
  /\ call.fn = "get"

=============================================================================
